---- MODULE Spec2Model ----
(***************************************************************************)
(* Model of src-tauri/src/lib.rs: the overlay visibility / click-through   *)
(* state machine (toggle_overlay, set_click_through, hide_overlay and the  *)
(* Ctrl+Space shortcut callback) and the Gemini request pipeline           *)
(* (get_best_available_model, send_to_ai).                                 *)
(***************************************************************************)
EXTENDS Integers, Sequences, FiniteSets, TLC

\* ------------------------------------------------------------------------
\* Bounds
\* ------------------------------------------------------------------------
NumTasks == 2      \* concurrently running command / shortcut tasks
MaxOps == 3        \* invocations started in one behaviour

Tasks == 1..NumTasks
NoTask == 0

\* ------------------------------------------------------------------------
\* Overlay state
\* ------------------------------------------------------------------------
VARIABLES
    is_visible,   \* OverlayState.is_visible, the value inside the Mutex
    mutex,        \* task holding the MutexGuard, or NoTask
    winVisible,   \* whether the OS window is shown
    exStyle,      \* GWL_EXSTYLE bits of the window
    isWindows,    \* cfg(target_os = "windows")
    pc,           \* per task: the statement it is about to execute
    op,           \* per task: the command it is running
    via,          \* per task: "command" (invoke handler) or "hotkey" (callback)
    enabled,      \* per task: argument of set_click_through_internal
    atLock,       \* per task: flag and window visibility found when the lock was taken
    ex_style,     \* per task: local ex_style read by GetWindowLongPtrW
    result,       \* per task: value returned by the command function
    delivered,    \* per task: what the invoker of the task receives
    calls,        \* per task: OS window calls issued by the current invocation
    started,      \* number of invocations begun
    prev,         \* flag and window visibility before the last critical section, an Option:
                  \* Some when that section was a successful toggle and no
                  \* set_click_through command has run since it began
    dirty,        \* a set_click_through command overlapped the current critical section
    afterHide,    \* a hide_overlay has succeeded and no toggle or hide has succeeded since
    pair          \* an Option: style and flag found when set_click_through(true) was
                  \* invoked with no task running, and how far that call and a directly
                  \* following set_click_through(false) have got, every OS call succeeding

ovVars == <<is_visible, mutex, winVisible, exStyle, isWindows, pc, op, via,
            enabled, atLock, ex_style, result, delivered, calls, started,
            prev, dirty, afterHide, pair>>

\* Pipeline state
VARIABLES
    envKey,       \* GEMINI_API_KEY in the process environment (an Option)
    aiPc,         \* statement send_to_ai is about to execute
    prompt,       \* argument prompt
    model,        \* argument model
    api_key,      \* local api_key (trimmed)
    model_name,   \* local model_name
    api_version,  \* local api_version
    listRes,      \* response of the listing GET
    data,         \* local data: ModelsResponse
    genRes,       \* response of the generation POST
    response_json,\* local response_json: GeminiResponse
    http,         \* HTTP requests issued by the current send_to_ai
    aiResult      \* value returned by send_to_ai

aiVars == <<envKey, aiPc, prompt, model, api_key, model_name, api_version,
            listRes, data, genRes, response_json, http, aiResult>>

vars == <<ovVars, aiVars>>

WS_EX_LAYERED == "LAYERED"
WS_EX_TRANSPARENT == "TRANSPARENT"
WS_EX_TOPMOST == "TOPMOST"
StyleBits == {WS_EX_LAYERED, WS_EX_TRANSPARENT, WS_EX_TOPMOST}

\* Extended styles a window can have at start-up: TRANSPARENT is only
\* meaningful on a layered window.
InitStyles == {s \in SUBSET StyleBits : WS_EX_TRANSPARENT \in s => WS_EX_LAYERED \in s}

NoResult == [kind |-> "None"]
OkBool(b) == [kind |-> "Ok", val |-> IF b THEN "true" ELSE "false"]
OkUnit == [kind |-> "Ok", val |-> "()"]
Err(m) == [kind |-> "Err", msg |-> m]
Discarded == [kind |-> "Discarded"]

\* An OS window call issued, and whether it returned no Err to the code (the
\* two style calls return a number and never an Err)
Call(name, ok) == [call |-> name, ok |-> ok]

InitOverlay ==
    /\ is_visible = FALSE
    /\ mutex = NoTask
    /\ winVisible = FALSE
    /\ isWindows \in BOOLEAN
    /\ exStyle \in IF isWindows THEN InitStyles ELSE {{}}
    /\ pc = [p \in Tasks |-> "idle"]
    /\ op = [p \in Tasks |-> "none"]
    /\ via = [p \in Tasks |-> "command"]
    /\ enabled = [p \in Tasks |-> FALSE]
    /\ atLock = [p \in Tasks |-> [flag |-> FALSE, vis |-> FALSE]]
    /\ ex_style = [p \in Tasks |-> {}]
    /\ result = [p \in Tasks |-> NoResult]
    /\ delivered = [p \in Tasks |-> NoResult]
    /\ calls = [p \in Tasks |-> <<>>]
    /\ started = 0
    /\ prev = <<>>
    /\ dirty = FALSE
    /\ afterHide = FALSE
    /\ pair = <<>>

AllIdle == \A p \in Tasks : pc[p] = "idle"

StyleCommandRunning == \E q \in Tasks : op[q] = "set_click_through" /\ pc[q] # "idle"

\* A command function returns r: the MutexGuard (if held) is dropped, the
\* invoke handler hands r to the host, the shortcut callback drops it.
Return(p, r) ==
    /\ pc' = [pc EXCEPT ![p] = "idle"]
    /\ result' = [result EXCEPT ![p] = r]
    /\ delivered' = [delivered EXCEPT ![p] = IF via[p] = "hotkey" THEN Discarded ELSE r]
    /\ mutex' = IF mutex = p THEN NoTask ELSE mutex
    /\ prev' = IF mutex # p THEN prev
               ELSE IF ~dirty /\ op[p] = "toggle" /\ r.kind = "Ok" THEN <<atLock[p]>>
               ELSE <<>>
    /\ atLock' = [atLock EXCEPT ![p] = [flag |-> FALSE, vis |-> FALSE]]
    /\ ex_style' = [ex_style EXCEPT ![p] = {}]
    /\ enabled' = [enabled EXCEPT ![p] = FALSE]
    /\ afterHide' = IF mutex = p /\ r.kind = "Ok" THEN op[p] = "hide" ELSE afterHide

\* An invocation runs as a new task, the first one that is free (tasks
\* differ in nothing but their index); what is recorded of the invocations
\* that have returned is dropped.
Begin(p, o, v, en) ==
    /\ pc[p] = "idle"
    /\ \A q \in Tasks : q < p => pc[q] # "idle"
    /\ started < MaxOps
    /\ started' = started + 1
    /\ pc' = [pc EXCEPT ![p] = "get_window"]
    /\ op' = [q \in Tasks |-> IF q = p THEN o ELSE IF pc[q] = "idle" THEN "none" ELSE op[q]]
    /\ via' = [q \in Tasks |-> IF q = p THEN v ELSE IF pc[q] = "idle" THEN "command" ELSE via[q]]
    /\ enabled' = [enabled EXCEPT ![p] = en]
    /\ result' = [q \in Tasks |-> IF pc[q] = "idle" THEN NoResult ELSE result[q]]
    /\ delivered' = [q \in Tasks |-> IF pc[q] = "idle" THEN NoResult ELSE delivered[q]]
    /\ calls' = [q \in Tasks |-> IF pc[q] = "idle" THEN <<>> ELSE calls[q]]
    /\ UNCHANGED <<is_visible, mutex, winVisible, exStyle, isWindows, atLock, ex_style,
                   afterHide>>
    /\ UNCHANGED aiVars

\* #[tauri::command] toggle_overlay invoked by the host shell.
InvokeToggle(p) ==
    /\ Begin(p, "toggle", "command", FALSE)
    /\ UNCHANGED <<prev, dirty>>
    /\ pair' = <<>>

\* on_shortcut("Ctrl+Space") callback: spawns a task running toggle_overlay.
Hotkey(p) ==
    /\ Begin(p, "toggle", "hotkey", FALSE)
    /\ UNCHANGED <<prev, dirty>>
    /\ pair' = <<>>

\* #[tauri::command] hide_overlay invoked by the host shell.
InvokeHide(p) ==
    /\ Begin(p, "hide", "command", FALSE)
    /\ UNCHANGED <<prev, dirty>>
    /\ pair' = <<>>

\* #[tauri::command] set_click_through(enabled) invoked by the host shell.
InvokeSetClickThrough(p, en) ==
    /\ Begin(p, "set_click_through", "command", en)
    /\ prev' = <<>>
    /\ dirty' = TRUE
    /\ pair' = IF en /\ AllIdle
               THEN <<[style |-> exStyle, flag |-> is_visible, stage |-> "first"]>>
               ELSE IF ~en /\ pair # <<>> /\ pair[1].stage = "between"
               THEN <<[pair[1] EXCEPT !.stage = "second"]>>
               ELSE <<>>

\* pair once the set_click_through command it follows has returned Ok(())
Completed(pr) ==
    IF pr = <<>> THEN <<>>
    ELSE <<[pr[1] EXCEPT !.stage = IF @ = "first" THEN "between" ELSE "done"]>>

\* The task goes on inside the command function: nothing is returned yet.
Continue(p, next) ==
    /\ pc' = [pc EXCEPT ![p] = next]
    /\ UNCHANGED <<result, delivered, mutex, prev, atLock, ex_style, enabled, afterHide>>

\* GetWindow of a command that clears the flag before it looks the window up
GetWindow_FlagFirst(p, found) ==
    /\ pc[p] = "get_window"
    /\ is_visible' = IF found THEN is_visible ELSE FALSE
    /\ IF found
       THEN Continue(p, IF op[p] = "set_click_through" THEN "internal" ELSE "lock")
       ELSE Return(p, Err("Failed to get main window"))
    /\ pair' = IF found THEN pair ELSE <<>>
    /\ UNCHANGED <<aiVars, winVisible, exStyle, isWindows, op, via, calls, started, dirty>>

\* app.get_webview_window("main").ok_or("Failed to get main window")?
GetWindow(p, found) ==
    /\ pc[p] = "get_window"
    /\ IF found
       THEN Continue(p, IF op[p] = "set_click_through" THEN "internal" ELSE "lock")
       ELSE Return(p, Err("Failed to get main window"))
    /\ pair' = IF found THEN pair ELSE <<>>
    /\ UNCHANGED <<aiVars, is_visible, winVisible, exStyle, isWindows, op, via, calls,
                   started, dirty>>

\* Lock with the shortcut path not going through the mutex of the command path
Lock_HotkeyUnlocked(p) ==
    /\ pc[p] = "lock"
    /\ via[p] = "hotkey" \/ mutex = NoTask
    /\ mutex' = IF via[p] = "hotkey" THEN mutex ELSE p
    /\ atLock' = [atLock EXCEPT ![p] = [flag |-> is_visible, vis |-> winVisible]]
    /\ dirty' = StyleCommandRunning
    /\ pc' = [pc EXCEPT ![p] = IF op[p] = "toggle" THEN "flip" ELSE "clear"]
    /\ UNCHANGED pair
    /\ UNCHANGED <<aiVars, is_visible, winVisible, exStyle, isWindows, op, via, enabled,
                   ex_style, result, delivered, calls, started, prev, afterHide>>

\* state.is_visible.lock().unwrap(): blocks until the mutex is free.
Lock(p) ==
    /\ pc[p] = "lock"
    /\ mutex = NoTask
    /\ mutex' = p
    /\ atLock' = [atLock EXCEPT ![p] = [flag |-> is_visible, vis |-> winVisible]]
    /\ dirty' = StyleCommandRunning
    /\ pc' = [pc EXCEPT ![p] = IF op[p] = "toggle" THEN "flip" ELSE "clear"]
    /\ UNCHANGED pair
    /\ UNCHANGED <<aiVars, is_visible, winVisible, exStyle, isWindows, op, via, enabled,
                   ex_style, result, delivered, calls, started, prev, afterHide>>

\* toggle_overlay: *is_visible = !*is_visible; if *is_visible { .. } else { .. }
Flip(p) ==
    /\ pc[p] = "flip"
    /\ is_visible' = ~is_visible
    /\ Continue(p, IF is_visible' THEN "show" ELSE "hide")
    /\ UNCHANGED pair
    /\ UNCHANGED <<aiVars, winVisible, exStyle, isWindows, op, via, calls, started, dirty>>

\* hide_overlay: *is_visible = false;
ClearFlag(p) ==
    /\ pc[p] = "clear"
    /\ is_visible' = FALSE
    /\ Continue(p, "hide")
    /\ UNCHANGED pair
    /\ UNCHANGED <<aiVars, winVisible, exStyle, isWindows, op, via, calls, started, dirty>>

\* window.show().map_err(|e| e.to_string())?
Show(p, ok) ==
    /\ pc[p] = "show"
    /\ calls' = [calls EXCEPT ![p] = Append(@, Call("show", ok))]
    /\ winVisible' = IF ok THEN TRUE ELSE winVisible
    /\ IF ok THEN Continue(p, "set_focus") ELSE Return(p, Err("show failed"))
    /\ UNCHANGED pair
    /\ UNCHANGED <<aiVars, is_visible, exStyle, isWindows, op, via, started, dirty>>

\* SetFocus going on to the style calls whatever set_focus returned
SetFocus_IgnoreError(p, ok) ==
    /\ pc[p] = "set_focus"
    /\ calls' = [calls EXCEPT ![p] = Append(@, Call("set_focus", ok))]
    /\ Continue(p, "internal")
    /\ UNCHANGED pair
    /\ UNCHANGED <<aiVars, is_visible, winVisible, exStyle, isWindows, op, via, started, dirty>>

\* window.set_focus().map_err(|e| e.to_string())?
SetFocus(p, ok) ==
    /\ pc[p] = "set_focus"
    /\ calls' = [calls EXCEPT ![p] = Append(@, Call("set_focus", ok))]
    /\ IF ok THEN Continue(p, "internal") ELSE Return(p, Err("set_focus failed"))
    /\ UNCHANGED pair
    /\ UNCHANGED <<aiVars, is_visible, winVisible, exStyle, isWindows, op, via, started, dirty>>

\* window.hide().map_err(|e| e.to_string())?; Ok(..)
Hide(p, ok) ==
    /\ pc[p] = "hide"
    /\ calls' = [calls EXCEPT ![p] = Append(@, Call("hide", ok))]
    /\ winVisible' = IF ok THEN FALSE ELSE winVisible
    /\ Return(p, IF ~ok THEN Err("hide failed")
                 ELSE IF op[p] = "toggle" THEN OkBool(is_visible) ELSE OkUnit)
    /\ UNCHANGED pair
    /\ UNCHANGED <<aiVars, is_visible, exStyle, isWindows, op, via, started, dirty>>

\* What the caller of set_click_through_internal returns once it returned Ok(()).
AfterInternal(p) == IF op[p] = "toggle" THEN OkBool(is_visible) ELSE OkUnit

\* set_click_through_internal on a target without the windows block: Ok(())
SkipStyle(p) ==
    /\ pc[p] = "internal"
    /\ ~isWindows
    /\ Return(p, AfterInternal(p))
    /\ pair' = Completed(pair)
    /\ UNCHANGED <<aiVars, is_visible, winVisible, exStyle, isWindows, op, via, calls,
                   started, dirty>>

\* let hwnd = window.hwnd().map_err(|e| e.to_string())?
Hwnd(p, ok) ==
    /\ pc[p] = "internal"
    /\ isWindows
    /\ calls' = [calls EXCEPT ![p] = Append(@, Call("hwnd", ok))]
    /\ IF ok THEN Continue(p, "get_style") ELSE Return(p, Err("hwnd failed"))
    /\ pair' = IF ok THEN pair ELSE <<>>
    /\ UNCHANGED <<aiVars, is_visible, winVisible, exStyle, isWindows, op, via, started, dirty>>

\* let ex_style = GetWindowLongPtrW(hwnd, GWL_EXSTYLE): zero when the call
\* fails; the code does not look at GetLastError
GetStyle(p, ok) ==
    /\ pc[p] = "get_style"
    /\ calls' = [calls EXCEPT ![p] = Append(@, Call("get_style", TRUE))]
    /\ ex_style' = [ex_style EXCEPT ![p] = IF ok THEN exStyle ELSE {}]
    /\ pc' = [pc EXCEPT ![p] = "set_style"]
    /\ pair' = IF ok THEN pair ELSE <<>>
    /\ UNCHANGED <<aiVars, is_visible, mutex, winVisible, exStyle, isWindows, op, via,
                   enabled, atLock, result, delivered, started, prev, dirty, afterHide>>

\* NewStyle setting the TRANSPARENT bit alone
NewStyle_TransparentOnly(style, en) ==
    IF en THEN style \cup {WS_EX_TRANSPARENT}
          ELSE style \ {WS_EX_TRANSPARENT}

\* NewStyle clearing LAYERED together with TRANSPARENT
NewStyle_ClearBoth(style, en) ==
    IF en THEN style \cup {WS_EX_LAYERED, WS_EX_TRANSPARENT}
          ELSE style \ {WS_EX_LAYERED, WS_EX_TRANSPARENT}

\* new_style computed from the style read and the enabled argument
NewStyle(style, en) ==
    IF en THEN style \cup {WS_EX_LAYERED, WS_EX_TRANSPARENT}
          ELSE style \ {WS_EX_TRANSPARENT}

\* SetWindowLongPtrW(hwnd, GWL_EXSTYLE, new_style); Ok(()): the value the
\* call returns is dropped, a failed call leaves the style as it is
SetStyle(p, ok) ==
    /\ pc[p] = "set_style"
    /\ calls' = [calls EXCEPT ![p] = Append(@, Call("set_style", TRUE))]
    /\ exStyle' = IF ok THEN NewStyle(ex_style[p], enabled[p]) ELSE exStyle
    /\ Return(p, AfterInternal(p))
    /\ pair' = IF ok THEN Completed(pair) ELSE <<>>
    /\ UNCHANGED <<aiVars, is_visible, winVisible, isWindows, op, via, started, dirty>>

\* ------------------------------------------------------------------------
\* Gemini request pipeline
\* ------------------------------------------------------------------------
MaxModels == 2     \* entries of a models listing
MaxCands == 2      \* candidates of a generation response
MaxParts == 2      \* parts of a candidate's content

\* Option<T>: None is the empty tuple, Some(x) the one-element tuple.
None == <<>>
Some(x) == <<x>>
IsSome(o) == Len(o) = 1
Unwrap(o) == o[1]

\* Sequences over S of length at most n
SeqUpTo(S, n) == UNION {[1..k -> S] : k \in 0..n}

\* Strings that the code inspects are sequences of tokens; no token is a
\* prefix of another, so starts_with on strings is the prefix relation on
\* token sequences.
Str(t) == <<t>>
GEMINI == Str("gemini")
GEMINI_PRO == Str("gemini-pro")
FLASH_15 == Str("gemini-1.5-flash")
V1 == "v1"
V1BETA == "v1beta"
GENERATE_CONTENT == "generateContent"

\* let preferences = [ .. ]
Preferences ==
    << <<"gemini-1.5-flash", "-latest">>,
       <<"gemini-1.5-flash">>,
       <<"gemini-1.5-flash", "-001">>,
       <<"gemini-1.5-flash", "-002">>,
       <<"gemini-flash", "-latest">> >>

\* str::starts_with
StartsWith(c, pref) == Len(c) >= Len(pref) /\ SubSeq(c, 1, Len(pref)) = pref

NotNamespace(t) == t # "models/"
\* m.name.replace("models/", ""): every occurrence is removed
ReplaceModels(name) == SelectSeq(name, NotNamespace)

\* m.supported_generation_methods.as_ref().map_or(false, |methods| methods.contains("generateContent"))
SupportsGenerate(m) ==
    IF IsSome(m.supported_generation_methods)
    THEN GENERATE_CONTENT \in Unwrap(m.supported_generation_methods)
    ELSE FALSE

\* Candidates keeping also the models that cannot generate content
Candidates_Unfiltered(models) ==
    [i \in 1..Len(models) |-> ReplaceModels(models[i].name)]

\* models.into_iter().filter(..).map(..).collect()
Candidates(models) ==
    LET kept == SelectSeq(models, SupportsGenerate)
    IN [i \in 1..Len(kept) |-> ReplaceModels(kept[i].name)]

RECURSIVE FindFrom(_, _, _)
\* candidates.iter().find(|c| c.starts_with(pref))
FindFrom(cands, pref, i) ==
    IF i > Len(cands) THEN None
    ELSE IF StartsWith(cands[i], pref) THEN Some(cands[i])
    ELSE FindFrom(cands, pref, i + 1)

RECURSIVE ScanPreferences(_, _)
\* for pref in preferences { if let Some(found) = .. { return Ok((found, "v1beta")) } }
ScanPreferences(cands, k) ==
    IF k > Len(Preferences) THEN None
    ELSE LET found == FindFrom(cands, Preferences[k], 1)
         IN IF IsSome(found) THEN found ELSE ScanPreferences(cands, k + 1)

RECURSIVE FirstPreferred(_, _)
\* first candidate, in listing order, that starts with any preference
FirstPreferred(cands, i) ==
    IF i > Len(cands) THEN None
    ELSE IF \E k \in 1..Len(Preferences) : StartsWith(cands[i], Preferences[k])
         THEN Some(cands[i])
    ELSE FirstPreferred(cands, i + 1)

\* SelectModel scanning the candidates first and the preferences second
SelectModel_ListingOrder(d) ==
    LET found == IF IsSome(d.models)
                 THEN FirstPreferred(Candidates(Unwrap(d.models)), 1)
                 ELSE None
    IN IF IsSome(found) THEN <<Unwrap(found), V1BETA>> ELSE <<FLASH_15, V1BETA>>

\* get_best_available_model after the body was parsed into data
SelectModel(d) ==
    LET found == IF IsSome(d.models)
                 THEN ScanPreferences(Candidates(Unwrap(d.models)), 1)
                 ELSE None
    IN IF IsSome(found) THEN <<Unwrap(found), V1BETA>> ELSE <<FLASH_15, V1BETA>>

\* StatusCode::is_success
IsSuccess(status) == 200 <= status /\ status < 300

\* str::trim on the credential: surrounding blanks are tokens " "
RECURSIVE TrimStart(_)
TrimStart(k) == IF k # <<>> /\ Head(k) = " " THEN TrimStart(Tail(k)) ELSE k
RECURSIVE TrimEnd(_)
TrimEnd(k) == IF k # <<>> /\ k[Len(k)] = " " THEN TrimEnd(SubSeq(k, 1, Len(k) - 1)) ELSE k
Trim(k) == TrimEnd(TrimStart(k))

\* ---- inputs --------------------------------------------------------------
Keys == {None, Some(<<" ", "k", " ">>)}
Prompts == {"hi", "bye"}
Aliases == {GEMINI, GEMINI_PRO, <<"gemini-2.0-flash">>}
Statuses == {200, 301, 404}
Messages == {"quota exceeded"}

ModelNames ==
    { <<"models/", "gemini-1.5-flash", "-001">>,
      <<"models/", "gemini-1.5-flash">>,
      <<"models/", "gemini-1.5-flash", "-latest">>,
      <<"models/", "gemini-flash", "-latest">>,
      <<"models/", "gemini-1.5-pro">>,
      <<"gemini-1.5-flash", "-002">>,
      <<"tuned", "models/", "gemini-flash", "-latest">> }
MethodSets == {None, Some({"embedContent"}), Some({GENERATE_CONTENT, "countTokens"})}

\* JSON documents a listing can carry; name is required by ModelInfo
RawModels == [name : {None} \cup {Some(n) : n \in ModelNames},
              supported_generation_methods : MethodSets]
ListingDocs(S) == {[json |-> TRUE, models |-> None]} \cup
                  {[json |-> TRUE, models |-> Some(ms)] : ms \in SeqUpTo(S, MaxModels)}
NotJson == [json |-> FALSE]

\* res.json::<ModelsResponse>(): fails on a non-JSON body or a model without name
ModelsWellTyped(doc) ==
    /\ doc.json
    /\ IsSome(doc.models) =>
         \A i \in 1..Len(Unwrap(doc.models)) : IsSome(Unwrap(doc.models)[i].name)
ParseModels(doc) ==
    IF ~ModelsWellTyped(doc) THEN None
    ELSE Some([models |->
           IF IsSome(doc.models)
           THEN LET ms == Unwrap(doc.models)
                IN Some([i \in 1..Len(ms) |->
                          [name |-> Unwrap(ms[i].name),
                           supported_generation_methods |-> ms[i].supported_generation_methods]])
           ELSE None])

\* The text of part j of candidate i: every text of a response is different
\* and has blanks around it
TextAt(i, j) == <<" ", "answer", i, j, " ">>

\* JSON documents a generation response can carry. A candidate is drawn by
\* its shape: without content (None), with a content without parts
\* (Some(None)), or with parts of which some have a text (Some(Some(has))).
PartShapes == SeqUpTo(BOOLEAN, MaxParts)
CandidateShapes == {None, Some(None)} \cup {Some(Some(has)) : has \in PartShapes}
RawParts(i, has) == [j \in 1..Len(has) |-> [text |-> IF has[j] THEN Some(TextAt(i, j)) ELSE None]]
RawCandidate(i, shape) ==
    [content |-> IF ~IsSome(shape) THEN None
                 ELSE IF ~IsSome(Unwrap(shape)) THEN Some([parts |-> None])
                 ELSE Some([parts |-> Some(RawParts(i, Unwrap(Unwrap(shape))))])]
RawCandidates == {[i \in 1..Len(shapes) |-> RawCandidate(i, shapes[i])] :
                    shapes \in SeqUpTo(CandidateShapes, MaxCands)}
\* message is required by GeminiError
RawErrors == {[message |-> None]} \cup {[message |-> Some(m)] : m \in Messages}
\* candidates next to which an error object is tried: none, an empty list,
\* one candidate without content, one with a text
ErrorCompanions ==
    {None, Some(<<>>), Some(<<RawCandidate(1, None)>>),
     Some(<<RawCandidate(1, Some(Some(<<TRUE>>)))>>)}
GenerationDocs ==
    [json : {TRUE}, error : {None},
     candidates : {None} \cup {Some(cs) : cs \in RawCandidates}]
    \cup [json : {TRUE}, error : {Some(e) : e \in RawErrors},
          candidates : ErrorCompanions]

\* res.json::<GeminiResponse>(): fails on a non-JSON body or an error object
\* without message; every other field is optional
ParseGemini(doc) ==
    IF ~doc.json THEN None
    ELSE IF IsSome(doc.error) /\ ~IsSome(Unwrap(doc.error).message) THEN None
    ELSE Some([candidates |-> doc.candidates,
               error |-> IF IsSome(doc.error)
                         THEN Some([message |-> Unwrap(Unwrap(doc.error).message)])
                         ELSE None])

\* ExtractText taking the last candidate and the last part instead of the first
ExtractText_Last(r) ==
    IF ~IsSome(r.candidates) THEN None
    ELSE LET candidates == Unwrap(r.candidates) IN
    IF candidates = <<>> THEN None
    ELSE LET candidate == candidates[Len(candidates)] IN
    IF ~IsSome(candidate.content) THEN None
    ELSE LET content == Unwrap(candidate.content) IN
    IF ~IsSome(content.parts) THEN None
    ELSE LET parts == Unwrap(content.parts) IN
    IF parts = <<>> THEN None
    ELSE parts[Len(parts)].text

\* the if-let chain candidates.first() .. content .. parts.first() .. text
ExtractText(r) ==
    IF ~IsSome(r.candidates) THEN None
    ELSE LET candidates == Unwrap(r.candidates) IN
    IF candidates = <<>> THEN None
    ELSE LET candidate == candidates[1] IN
    IF ~IsSome(candidate.content) THEN None
    ELSE LET content == Unwrap(candidate.content) IN
    IF ~IsSome(content.parts) THEN None
    ELSE LET parts == Unwrap(content.parts) IN
    IF parts = <<>> THEN None
    ELSE parts[1].text

\* Values send_to_ai returns
AiOk(text) == [kind |-> "Ok", val |-> text]
MissingCredential ==
    [kind |-> "Err", fmt |-> "GEMINI_API_KEY environment variable not set. Please check your .env file."]
ListingError(e) == [kind |-> "Err", fmt |-> "{}", listing |-> e]
NetworkError(e) == [kind |-> "Err", fmt |-> "Network request failed: {}", cause |-> e]
ApiError(status, text) == [kind |-> "Err", fmt |-> "API Error ({}): {}", status |-> status, body |-> text]
ParseError(e) == [kind |-> "Err", fmt |-> "Failed to parse response: {}", cause |-> e]
GeminiApiError(m) == [kind |-> "Err", fmt |-> "Gemini API Error: {}", message |-> m]
EmptyResponse == [kind |-> "Err", fmt |-> "No valid response text found in API response."]
CouldNotRead == [json |-> FALSE, text |-> "Could not read error body"]

NoResponse == [status |-> 0, readable |-> FALSE, body |-> NotJson]

InitAi ==
    /\ envKey \in Keys
    /\ aiPc = "idle"
    /\ prompt = "hi"
    /\ model = GEMINI
    /\ api_key = <<>>
    /\ model_name = <<>>
    /\ api_version = ""
    /\ listRes = NoResponse
    /\ data = [models |-> None]
    /\ genRes = NoResponse
    /\ response_json = [candidates |-> None, error |-> None]
    /\ http = <<>>
    /\ aiResult = NoResult

\* The overlay as started; the pipeline at rest
Init == InitOverlay /\ InitAi /\ envKey = None

AiReturn(r) ==
    /\ aiPc' = "done"
    /\ aiResult' = r

\* #[tauri::command] send_to_ai(prompt, model) invoked by the host shell
InvokeSend(pr, m) ==
    /\ aiPc \in {"idle", "done"}
    /\ aiPc' = "env"
    /\ prompt' = pr
    /\ model' = m
    /\ api_key' = <<>>
    /\ model_name' = <<>>
    /\ api_version' = ""
    /\ listRes' = NoResponse
    /\ data' = [models |-> None]
    /\ genRes' = NoResponse
    /\ response_json' = [candidates |-> None, error |-> None]
    /\ http' = <<>>
    /\ aiResult' = NoResult
    /\ UNCHANGED <<ovVars, envKey>>

\* ReadKey going on with an empty credential when the variable is not set
ReadKey_EmptyKey ==
    /\ aiPc = "env"
    /\ api_key' = IF IsSome(envKey) THEN Trim(Unwrap(envKey)) ELSE <<>>
    /\ IF model = GEMINI
       THEN /\ aiPc' = "list_get"
            /\ UNCHANGED <<model_name, api_version>>
       ELSE /\ aiPc' = "post"
            /\ model_name' = model
            /\ api_version' = V1BETA
    /\ UNCHANGED <<ovVars, envKey, prompt, model, listRes, data, genRes, response_json,
                   http, aiResult>>

\* ReadKey running the discovery for every alias
ReadKey_DiscoverAlways ==
    /\ aiPc = "env"
    /\ IF ~IsSome(envKey)
       THEN /\ AiReturn(MissingCredential)
            /\ UNCHANGED api_key
       ELSE /\ api_key' = Trim(Unwrap(envKey))
            /\ aiPc' = "list_get"
            /\ UNCHANGED aiResult
    /\ UNCHANGED <<ovVars, envKey, prompt, model, model_name, api_version, listRes, data,
                   genRes, response_json, http>>

\* std::env::var("GEMINI_API_KEY").map_err(..)?; api_key.trim(); if model == "gemini"
ReadKey ==
    /\ aiPc = "env"
    /\ IF ~IsSome(envKey)
       THEN /\ AiReturn(MissingCredential)
            /\ UNCHANGED <<api_key, model_name, api_version>>
       ELSE /\ api_key' = Trim(Unwrap(envKey))
            /\ IF model = GEMINI
               THEN /\ aiPc' = "list_get"
                    /\ UNCHANGED <<model_name, api_version>>
               ELSE /\ aiPc' = "post"
                    /\ model_name' = model
                    /\ api_version' = V1BETA
            /\ UNCHANGED aiResult
    /\ UNCHANGED <<ovVars, envKey, prompt, model, listRes, data, genRes, response_json, http>>

\* client.get(&url).send().await.map_err(|e| e.to_string())?
ListGet(sent, res) ==
    /\ aiPc = "list_get"
    /\ http' = Append(http, [method |-> "GET", version |-> V1BETA, path |-> <<"models">>,
                             key |-> api_key, text |-> ""])
    /\ IF sent
       THEN /\ listRes' = res
            /\ aiPc' = "list_status"
            /\ UNCHANGED aiResult
       ELSE /\ AiReturn(ListingError("transport error"))
            /\ UNCHANGED listRes
    /\ UNCHANGED <<ovVars, envKey, prompt, model, api_key, model_name, api_version, data,
                   genRes, response_json>>

\* client.get(&url).send().await on a service that never answers: the client
\* is built by reqwest::Client::new(), which sets no timeout, so the future
\* stays pending
ListGetPending ==
    /\ aiPc = "list_get"
    /\ http' = Append(http, [method |-> "GET", version |-> V1BETA, path |-> <<"models">>,
                             key |-> api_key, text |-> ""])
    /\ aiPc' = "list_wait"
    /\ UNCHANGED <<ovVars, envKey, prompt, model, api_key, model_name, api_version, listRes,
                   data, genRes, response_json, aiResult>>

\* if !res.status().is_success() { return Ok(("gemini-pro", "v1")) }
ListStatus ==
    /\ aiPc = "list_status"
    /\ IF ~IsSuccess(listRes.status)
       THEN /\ model_name' = GEMINI_PRO
            /\ api_version' = V1
            /\ aiPc' = "post"
            /\ listRes' = NoResponse
       ELSE /\ aiPc' = "list_parse"
            /\ UNCHANGED <<model_name, api_version, listRes>>
    /\ UNCHANGED <<ovVars, envKey, prompt, model, api_key, data, genRes, response_json,
                   http, aiResult>>

\* let data: ModelsResponse = res.json().await.map_err(|e| e.to_string())?
\* (res is consumed by json())
ListParse ==
    /\ aiPc = "list_parse"
    /\ listRes' = NoResponse
    /\ LET parsed == IF listRes.readable THEN ParseModels(listRes.body) ELSE None
       IN IF IsSome(parsed)
          THEN /\ data' = Unwrap(parsed)
               /\ aiPc' = "select"
               /\ UNCHANGED aiResult
          ELSE /\ AiReturn(ListingError("error decoding response body"))
               /\ UNCHANGED data
    /\ UNCHANGED <<ovVars, envKey, prompt, model, api_key, model_name, api_version,
                   genRes, response_json, http>>

\* the preference scan and the absolute fallback of get_best_available_model
\* (data.models is consumed by into_iter())
Select ==
    /\ aiPc = "select"
    /\ model_name' = SelectModel(data)[1]
    /\ api_version' = SelectModel(data)[2]
    /\ data' = [models |-> None]
    /\ aiPc' = "post"
    /\ UNCHANGED <<ovVars, envKey, prompt, model, api_key, listRes, genRes,
                   response_json, http, aiResult>>

\* Post issuing the request again after a transport error
Post_RetryOnError(sent, res) ==
    /\ aiPc = "post"
    /\ http' = Append(http, [method |-> "POST", version |-> api_version,
                             path |-> <<"models">> \o model_name \o <<":generateContent">>,
                             key |-> api_key, text |-> prompt])
    /\ IF sent
       THEN /\ genRes' = res
            /\ aiPc' = "gen_status"
       ELSE UNCHANGED <<genRes, aiPc>>
    /\ UNCHANGED <<ovVars, envKey, prompt, model, api_key, model_name, api_version, listRes,
                   data, response_json, aiResult>>

\* client.post(&url).json(&request_body).send().await.map_err(..)?
Post(sent, res) ==
    /\ aiPc = "post"
    /\ http' = Append(http, [method |-> "POST", version |-> api_version,
                             path |-> <<"models">> \o model_name \o <<":generateContent">>,
                             key |-> api_key, text |-> prompt])
    /\ IF sent
       THEN /\ genRes' = res
            /\ aiPc' = "gen_status"
            /\ UNCHANGED aiResult
       ELSE /\ AiReturn(NetworkError("transport error"))
            /\ UNCHANGED genRes
    /\ UNCHANGED <<ovVars, envKey, prompt, model, api_key, model_name, api_version, listRes,
                   data, response_json>>

\* client.post(&url).json(..).send().await on a service that never answers
PostPending ==
    /\ aiPc = "post"
    /\ http' = Append(http, [method |-> "POST", version |-> api_version,
                             path |-> <<"models">> \o model_name \o <<":generateContent">>,
                             key |-> api_key, text |-> prompt])
    /\ aiPc' = "post_wait"
    /\ UNCHANGED <<ovVars, envKey, prompt, model, api_key, model_name, api_version, listRes,
                   data, genRes, response_json, aiResult>>

\* GenStatus parsing the body whatever the status
GenStatus_NoCheck ==
    /\ aiPc = "gen_status"
    /\ aiPc' = "gen_parse"
    /\ UNCHANGED <<ovVars, envKey, prompt, model, api_key, model_name, api_version,
                   listRes, data, genRes, response_json, http, aiResult>>

\* if !res.status().is_success() { .. return Err(format!("API Error ({}): {}", ..)) }
GenStatus ==
    /\ aiPc = "gen_status"
    /\ IF ~IsSuccess(genRes.status)
       THEN AiReturn(ApiError(genRes.status,
                              IF genRes.readable THEN genRes.body ELSE CouldNotRead))
       ELSE /\ aiPc' = "gen_parse"
            /\ UNCHANGED aiResult
    /\ UNCHANGED <<ovVars, envKey, prompt, model, api_key, model_name, api_version, listRes,
                   data, genRes, response_json, http>>

\* let response_json: GeminiResponse = res.json().await.map_err(..)?
GenParse ==
    /\ aiPc = "gen_parse"
    /\ LET parsed == IF genRes.readable THEN ParseGemini(genRes.body) ELSE None
       IN IF IsSome(parsed)
          THEN /\ response_json' = Unwrap(parsed)
               /\ aiPc' = "extract"
               /\ UNCHANGED aiResult
          ELSE /\ AiReturn(ParseError("error decoding response body"))
               /\ UNCHANGED response_json
    /\ UNCHANGED <<ovVars, envKey, prompt, model, api_key, model_name, api_version, listRes,
                   data, genRes, http>>

\* Answer looking for the text before looking at the error object
Answer_TextFirst(r) ==
    IF IsSome(ExtractText(r)) THEN AiOk(Unwrap(ExtractText(r)))
    ELSE IF IsSome(r.error) THEN GeminiApiError(Unwrap(r.error).message)
    ELSE EmptyResponse

\* What send_to_ai returns for a parsed response
Answer(r) ==
    IF IsSome(r.error) THEN GeminiApiError(Unwrap(r.error).message)
    ELSE IF IsSome(ExtractText(r)) THEN AiOk(Unwrap(ExtractText(r)))
    ELSE EmptyResponse

\* the error-object check, the if-let chain and the final Err
Extract ==
    /\ aiPc = "extract"
    /\ AiReturn(Answer(response_json))
    /\ UNCHANGED <<ovVars, envKey, prompt, model, api_key, model_name, api_version, listRes,
                   data, genRes, response_json, http>>

\* A listing of one generation-capable flash model
OneModelDoc ==
    [json |-> TRUE,
     models |-> Some(<<[name |-> Some(<<"models/", "gemini-1.5-flash", "-001">>),
                       supported_generation_methods |-> Some({GENERATE_CONTENT})]>>)]
\* A one-part answer, alone and together with an error object
AnswerDoc ==
    [json |-> TRUE, error |-> None,
     candidates |-> Some(<<RawCandidate(1, Some(Some(<<TRUE>>)))>>)]
ErrorAnswerDoc ==
    [json |-> TRUE, error |-> Some([message |-> Some("quota exceeded")]),
     candidates |-> Some(<<RawCandidate(1, Some(Some(<<TRUE>>)))>>)]

Response(st, rd, b) == [status |-> st, readable |-> rd, body |-> b]

\* Answers of the listing endpoint: every document under a success status,
\* a few bodies under the other statuses, and bodies that cannot be read
ListResponses ==
    {Response(200, TRUE, b) : b \in ListingDocs(RawModels) \cup {NotJson}}
    \cup {Response(st, TRUE, b) : st \in Statuses \ {200}, b \in {NotJson, OneModelDoc}}
    \cup {Response(st, FALSE, NotJson) : st \in Statuses}
\* Answers of the generation endpoint, likewise
GenResponses ==
    {Response(200, TRUE, b) : b \in GenerationDocs \cup {NotJson}}
    \cup {Response(st, TRUE, b) : st \in Statuses \ {200},
                                  b \in {NotJson, AnswerDoc, ErrorAnswerDoc}}
    \cup {Response(st, FALSE, NotJson) : st \in Statuses}

\* A few answers of either endpoint
FewListResponses == {Response(404, TRUE, NotJson), Response(200, TRUE, OneModelDoc)}
FewGenResponses == {Response(404, TRUE, NotJson), Response(200, TRUE, AnswerDoc)}

\* ------------------------------------------------------------------------
\* Specifications
\* ------------------------------------------------------------------------
Next ==
    \E p \in Tasks :
        \/ InvokeToggle(p)
        \/ Hotkey(p)
        \/ InvokeHide(p)
        \/ \E en \in BOOLEAN : InvokeSetClickThrough(p, en)
        \/ \E found \in BOOLEAN : GetWindow(p, found)
        \/ Lock(p)
        \/ Flip(p)
        \/ ClearFlag(p)
        \/ \E ok \in BOOLEAN : Show(p, ok)
        \/ \E ok \in BOOLEAN : SetFocus(p, ok)
        \/ \E ok \in BOOLEAN : Hide(p, ok)
        \/ SkipStyle(p)
        \/ \E ok \in BOOLEAN : Hwnd(p, ok)
        \/ \E ok \in BOOLEAN : GetStyle(p, ok)
        \/ \E ok \in BOOLEAN : SetStyle(p, ok)

\* The overlay commands and the shortcut callback, with failing OS calls
Spec == Init /\ [][Next]_vars

NextToggles ==
    \E p \in Tasks :
        \/ InvokeToggle(p)
        \/ Hotkey(p)
        \/ GetWindow(p, TRUE)
        \/ Lock(p)
        \/ Flip(p)
        \/ Show(p, TRUE)
        \/ SetFocus(p, TRUE)
        \/ Hide(p, TRUE)
        \/ SkipStyle(p)
        \/ Hwnd(p, TRUE)
        \/ GetStyle(p, TRUE)
        \/ SetStyle(p, TRUE)

\* Toggles from the command and from the shortcut, every OS call succeeding
SpecToggles == Init /\ [][NextToggles]_vars

\* The pipeline shares no state with the overlay, which stays as started
InitPipeline == InitOverlay /\ InitAi /\ isWindows /\ exStyle = {}

NextResolve ==
    \/ \E pr \in Prompts, m \in Aliases : InvokeSend(pr, m)
    \/ ReadKey
    \/ \E res \in ListResponses : ListGet(TRUE, res)
    \/ ListGet(FALSE, NoResponse)
    \/ ListStatus
    \/ ListParse
    \/ Select
    \/ \E res \in FewGenResponses : Post(TRUE, res)
    \/ Post(FALSE, NoResponse)
    \/ GenStatus
    \/ GenParse
    \/ Extract

\* send_to_ai against every answer of the listing endpoint
SpecResolve == InitPipeline /\ [][NextResolve]_vars

NextSend ==
    \/ \E pr \in Prompts, m \in {GEMINI, GEMINI_PRO} : InvokeSend(pr, m)
    \/ ReadKey
    \/ \E res \in FewListResponses : ListGet(TRUE, res)
    \/ ListGet(FALSE, NoResponse)
    \/ ListStatus
    \/ ListParse
    \/ Select
    \/ \E res \in GenResponses : Post(TRUE, res)
    \/ Post(FALSE, NoResponse)
    \/ GenStatus
    \/ GenParse
    \/ Extract

\* send_to_ai against every answer of the generation endpoint
SpecSend == InitPipeline /\ [][NextSend]_vars

\* the steps of a running send_to_ai, the service answering or not
StepsHang ==
    \/ ReadKey
    \/ \E res \in FewListResponses : ListGet(TRUE, res)
    \/ ListGet(FALSE, NoResponse)
    \/ ListGetPending
    \/ ListStatus
    \/ ListParse
    \/ Select
    \/ \E res \in FewGenResponses : Post(TRUE, res)
    \/ Post(FALSE, NoResponse)
    \/ PostPending
    \/ GenStatus
    \/ GenParse
    \/ Extract

NextHang ==
    \/ \E pr \in Prompts, m \in Aliases : InvokeSend(pr, m)
    \/ StepsHang

\* send_to_ai against a service that may never answer; the async runtime
\* polls a task for as long as it can go on
SpecHang == InitPipeline /\ [][NextHang]_vars /\ WF_vars(StepsHang)

\* Answers of either endpoint, one of each outcome the code tells apart:
\* a non-success status, a success with the expected document, a success
\* with a body that is no JSON
ListOutcomes == FewListResponses \cup {Response(200, TRUE, NotJson)}
GenOutcomes == FewGenResponses \cup {Response(200, TRUE, NotJson)}

InitEither == InitOverlay /\ InitAi /\ IsSome(envKey)

NextEither ==
    \/ \E p \in Tasks :
        \/ aiPc = "idle" /\ InvokeToggle(p)
        \/ aiPc = "idle" /\ Hotkey(p)
        \/ aiPc = "idle" /\ InvokeHide(p)
        \/ \E en \in BOOLEAN : aiPc = "idle" /\ InvokeSetClickThrough(p, en)
        \/ \E found \in BOOLEAN : GetWindow(p, found)
        \/ Lock(p)
        \/ Flip(p)
        \/ ClearFlag(p)
        \/ \E ok \in BOOLEAN : Show(p, ok)
        \/ \E ok \in BOOLEAN : SetFocus(p, ok)
        \/ \E ok \in BOOLEAN : Hide(p, ok)
        \/ SkipStyle(p)
        \/ \E ok \in BOOLEAN : Hwnd(p, ok)
        \/ \E ok \in BOOLEAN : GetStyle(p, ok)
        \/ \E ok \in BOOLEAN : SetStyle(p, ok)
    \/ \E pr \in Prompts, m \in Aliases : started = 0 /\ InvokeSend(pr, m)
    \/ ReadKey
    \/ \E res \in ListOutcomes : ListGet(TRUE, res)
    \/ ListGet(FALSE, NoResponse)
    \/ ListStatus
    \/ ListParse
    \/ Select
    \/ \E res \in GenOutcomes : Post(TRUE, res)
    \/ Post(FALSE, NoResponse)
    \/ GenStatus
    \/ GenParse
    \/ Extract

\* The overlay commands or the sends: the two share no variable and no
\* action of one reads a variable of the other, so a behaviour of the
\* program is, on the variables of either, a behaviour in which only that
\* one runs
SpecEither == InitEither /\ [][NextEither]_vars

\* ------------------------------------------------------------------------
\* Properties
\* ------------------------------------------------------------------------
\* statements executed between taking the lock and returning
InSection == {"flip", "clear", "show", "set_focus", "hide"}
InToggleSection(p) ==
    \/ pc[p] \in InSection
    \/ op[p] = "toggle" /\ pc[p] \in {"internal", "get_style", "set_style"}

\* C1: when the show or hide call of a toggle or of a hide fails, the flag
\* has, once the error is returned, the value it had when the operation
\* took the lock.
C1_FlagKeptOnFailure ==
    [][\A p \in Tasks :
          (pc[p] \in {"show", "hide"} /\ pc'[p] = "idle" /\ result'[p].kind = "Err")
              => is_visible' = atLock[p].flag]_vars

\* C2: toggles from the command and from the shortcut callback are mutually
\* exclusive from the flip to the last OS call, and once all have returned
\* (every OS call succeeding) the flag equals the window's visibility and
\* the initial value (false) flipped once per toggle.
C2_TogglesSerialize ==
    /\ \A p \in Tasks : InToggleSection(p) => mutex = p
    /\ AllIdle => /\ is_visible = winVisible
                  /\ is_visible = (started % 2 = 1)

\* C2 happens: a command toggle and a shortcut toggle have both returned
C2_Witness ==
    /\ AllIdle
    /\ started >= 2
    /\ \E p, q \in Tasks : /\ via[p] = "command" /\ via[q] = "hotkey"
                           /\ result[p].kind = "Ok" /\ result[q].kind = "Ok"

\* C3: a successful toggle that directly follows a successful toggle (no
\* other critical section and no set_click_through in between) leaves the
\* flag and the window visibility as they were before the first of the two,
\* and the TRANSPARENT bit cleared.
C3_ToggleInvolution ==
    [][\A p \in Tasks :
          (op[p] = "toggle" /\ mutex = p /\ pc'[p] = "idle"
             /\ result'[p].kind = "Ok" /\ IsSome(prev))
              => /\ is_visible' = Unwrap(prev).flag
                 /\ winVisible' = Unwrap(prev).vis
                 /\ WS_EX_TRANSPARENT \notin exStyle']_vars

HasPost == \E i \in 1..Len(http) : http[i].method = "POST"

\* C4: a send with the alias "gemini" and a credential never ends before
\* the generation POST was issued: model resolution returns no error.
C4_ResolveNeverFails ==
    (aiPc = "done" /\ model = GEMINI /\ IsSome(envKey)) => HasPost

\* the listing GET just failed at the transport level
ListTransportFailure == aiPc = "list_get" /\ aiPc' # "list_get" /\ listRes' = NoResponse
\* the listing GET was answered with a non-success status, now being examined
ListBadStatus == aiPc = "list_status" /\ aiPc' # "list_status" /\ ~IsSuccess(listRes.status)

\* C5: after a transport failure of the listing call and after a
\* non-success status, resolution yields ("gemini-pro", "v1").
C5_ListingFailureDefaults ==
    [][(ListTransportFailure \/ ListBadStatus)
          => /\ aiPc' = "post"
             /\ model_name' = GEMINI_PRO
             /\ api_version' = V1]_vars

\* smallest element of a non-empty set of numbers
Least(S) == CHOOSE x \in S : \A y \in S : x <= y

\* the listed models of d that support generateContent, by position
Capable(d) ==
    {i \in 1..Len(Unwrap(d.models)) :
        /\ IsSome(Unwrap(d.models)[i].supported_generation_methods)
        /\ GENERATE_CONTENT \in Unwrap(Unwrap(d.models)[i].supported_generation_methods)}
\* identifier of the i-th listed model, "models/" removed
Ident(d, i) == ReplaceModels(Unwrap(d.models)[i].name)
\* positions of the capable models whose identifier starts with preference k
Matching(d, k) == {i \in Capable(d) : StartsWith(Ident(d, i), Preferences[k])}
\* preferences that some capable model matches
Matched(d) == {k \in 1..Len(Preferences) : Matching(d, k) # {}}

\* C6: when the listing was parsed and some generation-capable model
\* matches a preference, the model chosen is, with "v1beta", the first in
\* listing order among the capable ones that start with the earliest
\* matched preference.
C6_PreferenceOrder ==
    [][(aiPc = "select" /\ aiPc' # "select" /\ IsSome(data.models) /\ Matched(data) # {})
          => /\ aiPc' = "post"
             /\ api_version' = V1BETA
             /\ model_name' = Ident(data, Least(Matching(data, Least(Matched(data)))))]_vars

\* C6 happens: discovery chose gemini-1.5-flash-001
C6_Witness ==
    /\ aiPc = "post"
    /\ model = GEMINI
    /\ model_name = <<"gemini-1.5-flash", "-001">>
    /\ api_version = V1BETA

\* C7: without a credential a send returns the missing-credential error
\* and issues no HTTP request at all.
C7_NoCredentialNoHttp ==
    ~IsSome(envKey) => /\ http = <<>>
                       /\ aiPc \in {"idle", "env", "done"}
                       /\ aiPc = "done" => aiResult = MissingCredential

\* C7 happens: a send without credential has returned
C7_Witness ==
    /\ ~IsSome(envKey)
    /\ aiPc = "done"
    /\ aiResult = MissingCredential
    /\ model # GEMINI

\* the generation POST was answered with a success status and a JSON body
GenAnswered == aiPc = "done" /\ genRes # NoResponse
GenSuccessJson == GenAnswered /\ IsSuccess(genRes.status) /\ genRes.readable /\ genRes.body.json

\* the body of the generation answer has every link down to the first text
ChainPresent(b) ==
    /\ IsSome(b.candidates)
    /\ Len(Unwrap(b.candidates)) >= 1
    /\ IsSome(Unwrap(b.candidates)[1].content)
    /\ IsSome(Unwrap(Unwrap(b.candidates)[1].content).parts)
    /\ Len(Unwrap(Unwrap(Unwrap(b.candidates)[1].content).parts)) >= 1
    /\ IsSome(Unwrap(Unwrap(Unwrap(b.candidates)[1].content).parts)[1].text)
ChainText(b) == Unwrap(Unwrap(Unwrap(Unwrap(b.candidates)[1].content).parts)[1].text)

\* C8: a success-status answer whose body has a top-level error object
\* makes the send fail, with the object's message when it has one, also
\* when the body carries a complete candidates chain.
C8_ErrorObjectWins ==
    (GenSuccessJson /\ IsSome(genRes.body.error))
        => /\ aiResult.kind = "Err"
           /\ IsSome(Unwrap(genRes.body.error).message)
                => aiResult = GeminiApiError(Unwrap(Unwrap(genRes.body.error).message))

\* C8 happens: error object and complete chain in one success answer
C8_Witness ==
    /\ GenSuccessJson
    /\ IsSome(genRes.body.error)
    /\ ChainPresent(genRes.body)
    /\ aiResult = GeminiApiError("quota exceeded")

\* C9: for a success-status answer without error object, the send returns
\* the first candidate's first part's text unchanged when every link of the
\* chain is present, and the empty-response error otherwise.
C9_TextOrEmpty ==
    (GenSuccessJson /\ ~IsSome(genRes.body.error))
        => IF ChainPresent(genRes.body)
           THEN aiResult = AiOk(ChainText(genRes.body))
           ELSE aiResult = EmptyResponse

\* C9 happens: the first part has no text, a later one has, and the send
\* answered with the empty-response error
C9_Witness ==
    /\ GenSuccessJson
    /\ ~IsSome(genRes.body.error)
    /\ IsSome(genRes.body.candidates)
    /\ Len(Unwrap(genRes.body.candidates)) = 1
    /\ Unwrap(genRes.body.candidates)[1].content
         = Some([parts |-> Some(<<[text |-> None], [text |-> Some(TextAt(1, 2))]>>)])
    /\ aiResult = EmptyResponse

\* C10: a non-success status of the generation POST makes the send fail
\* with the status and the raw body, whatever the body holds.
C10_StatusBeforeBody ==
    (GenAnswered /\ ~IsSuccess(genRes.status))
        => aiResult = ApiError(genRes.status,
                               IF genRes.readable THEN genRes.body ELSE CouldNotRead)

\* C10 happens: a 404 answer whose body has a complete candidates chain
C10_Witness ==
    /\ GenAnswered
    /\ genRes.status = 404
    /\ genRes.readable
    /\ genRes.body.json
    /\ ChainPresent(genRes.body)
    /\ aiResult = ApiError(404, genRes.body)


\* the generation POST of the running send has been issued
PostIssued == aiPc \in {"gen_status", "gen_parse", "extract"} \/ (aiPc = "done" /\ HasPost)

\* C11: a send with an alias other than "gemini" never issues the listing
\* call; it resolves to the alias itself under "v1beta", and its only HTTP
\* call is one generation POST addressed to exactly that alias under v1beta.
C11_AliasPassThrough ==
    (model # GEMINI /\ aiPc # "idle")
        => /\ aiPc \notin {"list_get", "list_status", "list_parse", "select"}
           /\ Len(http) <= 1
           /\ \A i \in 1..Len(http) :
                 /\ http[i].method = "POST"
                 /\ http[i].version = V1BETA
                 /\ http[i].path = <<"models">> \o model \o <<":generateContent">>
           /\ aiPc \in {"post", "gen_status", "gen_parse", "extract"}
                 => (model_name = model /\ api_version = V1BETA)
           /\ PostIssued => Len(http) = 1

\* C11 happens: a send with the alias gemini-2.0-flash was answered
C11_Witness ==
    /\ model = <<"gemini-2.0-flash">>
    /\ aiPc = "done"
    /\ aiResult.kind = "Ok"
    /\ Len(http) = 1


\* no generation-capable model of d starts with a preference: the list is
\* absent or empty, or only models without generateContent match
NoneMatched(d) == ~IsSome(d.models) \/ Matched(d) = {}

\* C12: when the listing was parsed and no generation-capable candidate
\* starts with any preference, resolution yields ("gemini-1.5-flash",
\* "v1beta").
C12_FallbackWhenNoMatch ==
    [][(aiPc = "select" /\ aiPc' # "select" /\ NoneMatched(data))
          => /\ aiPc' = "post"
             /\ model_name' = FLASH_15
             /\ api_version' = V1BETA]_vars

\* C12 happens: the scan is about to run over a listing whose only model
\* with a preferred prefix lacks generateContent, next to a capable model
\* that no preference matches
C12_Witness ==
    /\ aiPc = "select"
    /\ IsSome(data.models)
    /\ Matched(data) = {}
    /\ Capable(data) # {}
    /\ \E i \in 1..Len(Unwrap(data.models)) :
          /\ i \notin Capable(data)
          /\ StartsWith(Ident(data, i), Preferences[1])


\* C13: the window style has LAYERED set whenever TRANSPARENT is set, after
\* any interleaving of set_click_through(true/false), toggles and hides,
\* given that it was so at start-up.
C13_LayeredWhenTransparent ==
    WS_EX_TRANSPARENT \in exStyle => WS_EX_LAYERED \in exStyle

\* C13 happens: a toggle has shown the window, a set_click_through command
\* has gone through its style calls, and the window is click-through
C13_Witness ==
    /\ AllIdle
    /\ WS_EX_TRANSPARENT \in exStyle
    /\ \E p, q \in Tasks :
          /\ op[p] = "toggle" /\ result[p] = OkBool(TRUE)
          /\ op[q] = "set_click_through" /\ result[q] = OkUnit
          /\ Len(calls[p]) = 5
          /\ Len(calls[q]) = 3


\* C14: set_click_through(true) directly followed by set_click_through(false),
\* no other command running meanwhile and every OS call succeeding, leaves
\* (on a Windows build) TRANSPARENT cleared, LAYERED set and every other
\* extended-style bit as it was before the two calls; the flag is what it
\* was, during and after the two calls.
C14_EnableThenDisable ==
    pair # <<>>
        => /\ is_visible = pair[1].flag
           /\ (pair[1].stage = "done" /\ isWindows)
                 => /\ WS_EX_TRANSPARENT \notin exStyle
                    /\ WS_EX_LAYERED \in exStyle
                    /\ exStyle \ {WS_EX_LAYERED, WS_EX_TRANSPARENT}
                         = pair[1].style \ {WS_EX_LAYERED, WS_EX_TRANSPARENT}

\* C14 happens: the two calls have run on a shown, top-most window that was
\* not layered before
C14_Witness ==
    /\ pair # <<>>
    /\ pair[1].stage = "done"
    /\ pair[1].style = {WS_EX_TOPMOST}
    /\ pair[1].flag
    /\ isWindows
    /\ AllIdle


\* C15: a successful hide leaves the flag false and the window hidden and
\* has issued the hide call only; the next toggle that succeeds after it
\* shows the window and returns true.
C15_HideThenToggle ==
    [][\A p \in Tasks :
          /\ (op[p] = "hide" /\ pc[p] # "idle" /\ pc'[p] = "idle" /\ result'[p].kind = "Ok")
                => /\ ~is_visible'
                   /\ ~winVisible'
                   /\ calls'[p] = <<Call("hide", TRUE)>>
          /\ (op[p] = "toggle" /\ pc[p] # "idle" /\ pc'[p] = "idle" /\ result'[p].kind = "Ok"
                 /\ afterHide)
                => /\ result'[p] = OkBool(TRUE)
                   /\ winVisible'
                   /\ is_visible']_vars


\* the step by which task p returns from the command function
Returns(p) == pc[p] # "idle" /\ pc'[p] = "idle"

\* the SetWindowLongPtrW call of task p fails in this step
SetStyleFails(p) ==
    pc[p] = "set_style" /\ exStyle' # NewStyle(ex_style[p], enabled[p])

\* C16: when the window lookup or a show, hide, focus or style call of a
\* toggle fails, the invoker of the toggle (the host for the command, the
\* shortcut callback for Ctrl+Space) receives an error string.
C16_NoErrorDiscarded ==
    [][\A p \in Tasks :
          (op[p] = "toggle" /\ Returns(p) /\ (result'[p].kind = "Err" \/ SetStyleFails(p)))
              => delivered'[p].kind = "Err"]_vars


\* C17: every invocation of send_to_ai eventually returns a result or an
\* error, also when the HTTP service never answers.
C17_SendReturns == (aiPc = "env") ~> (aiPc = "done")


\* names of the calls of a call sequence
Names(cs) == [i \in 1..Len(cs) |-> cs[i].call]
IsPrefix(s, t) == Len(s) <= Len(t) /\ s = SubSeq(t, 1, Len(s))

\* the calls of a toggle to visible (set_click_through_internal issues its
\* three calls on the windows build only) and of a toggle to hidden
ShowCalls ==
    IF isWindows THEN <<"show", "set_focus", "hwnd", "get_style", "set_style">>
                 ELSE <<"show", "set_focus">>
HideCalls == <<"hide">>

Methods == [i \in 1..Len(http) |-> http[i].method]
\* no OS call is issued twice
NoRepeat(cs) == \A i, j \in 1..Len(cs) : cs[i].call = cs[j].call => i = j

\* C19: a send issues at most one listing GET and at most one generation
\* POST, the GET first, whatever the answers; a toggle or a hide issues each
\* of its OS calls at most once, whatever the calls return.
C19_NoRetry ==
    /\ Methods \in {<<>>, <<"GET">>, <<"POST">>, <<"GET", "POST">>}
    /\ \A p \in Tasks : op[p] \in {"toggle", "hide"} => NoRepeat(calls[p])

\* C19 happens: the generation POST that followed the listing GET failed in
\* transport and the send returned
C19_Witness ==
    /\ aiPc = "done"
    /\ Methods = <<"GET", "POST">>
    /\ aiResult = NetworkError("transport error")


\* the window lookup of task p fails in this step
LookupFails(p) == pc[p] = "get_window" /\ pc'[p] = "idle"

\* C20: when the main window cannot be looked up, toggle_overlay and
\* hide_overlay return the window-unavailable error without having taken
\* the lock, with the flag as it was and without any OS window call.
C20_NoWindowNoEffect ==
    [][\A p \in Tasks :
          (op[p] \in {"toggle", "hide"} /\ LookupFails(p))
              => /\ result'[p] = Err("Failed to get main window")
                 /\ mutex # p /\ mutex' = mutex
                 /\ is_visible' = is_visible
                 /\ winVisible' = winVisible
                 /\ exStyle' = exStyle
                 /\ calls'[p] = <<>>]_vars

\* C20 happens: a hide whose lookup failed has returned while the overlay
\* is shown, and the flag is still true
C20_Witness ==
    \E p \in Tasks :
        /\ op[p] = "hide"
        /\ pc[p] = "idle"
        /\ result[p] = Err("Failed to get main window")
        /\ calls[p] = <<>>
        /\ is_visible /\ winVisible
        /\ mutex = NoTask

====
